---- MODULE Spec2Model ----
(***************************************************************************)
(* Step4Preview: the audio-reactive preview view.  One render callback     *)
(* (renderFrame) analyses the bass band, detects beats, advances the pose  *)
(* sequencer and decays the flash; togglePlay / handleDownload drive the   *)
(* audio element, the MediaRecorder and the 100 ms capture poll.           *)
(*                                                                         *)
(* Numbers.  bassLevel is kept as the integer bassSum, i.e. in units of    *)
(* 1/LevelScale (LevelScale = (endBin - startBin) * 255), so every         *)
(* comparison of the source is an exact integer comparison.  beatFlashRef  *)
(* only ever holds 0 or 0.85^k; it is kept as the exponent k (NoFlash for  *)
(* the initial 0).  Times of render frames are in ms, the audio clock and  *)
(* the target duration in seconds.                                         *)
(***************************************************************************)
EXTENDS Integers, Sequences, FiniteSets, TLC

VARIABLES
    \* props of the view (state.*), fixed while the view is mounted
    duration, intensity, audioPreviewUrl, audioLength,
    \* audio graph refs
    audioRef, audioCtxRef, analyserRef, destRef, sourceRef, ctxState,
    \* the HTMLAudioElement behind audioRef
    paused, currentTime, loop,
    \* component state
    isPlaying, isRecording, downloadProgress, audioReady,
    imagesReady, poseImages, loading, error,
    \* animation refs
    lastBeatTimeRef, energyHistoryRef, sequenceIndexRef, beatFlashRef,
    \* asynchronous work in flight
    playPromises, togglePc, downloadPc, sessions, downloads,
    \* observation of the run: time of the last frame, the last frame's
    \* locals, accepted beat timestamps, every analysed sample, counters
    now, frame, beats, pushed, stuttered, script,
    \* the render callbacks requested and neither run nor cancelled; the view
    \* is mounted
    requestRef, mounted,
    \* which audio source the view was given, which one the engine's audio
    \* element was bound to, and the audio contexts created and not closed
    sourceId, engineSource, liveEngines,
    \* a second sequencer, started with the first and fed the beats the first
    \* accepts, with stutter draws of its own
    twin,
    \* the runs of the image loading effect: the frames each was given, those
    \* whose load completed, those that loaded, its isMounted flag, and how
    \* often it published
    loads

vars == <<duration, intensity, audioPreviewUrl, audioLength,
          audioRef, audioCtxRef, analyserRef, destRef, sourceRef, ctxState,
          paused, currentTime, loop,
          isPlaying, isRecording, downloadProgress, audioReady,
          imagesReady, poseImages, loading, error,
          lastBeatTimeRef, energyHistoryRef, sequenceIndexRef, beatFlashRef,
          playPromises, togglePc, downloadPc, sessions, downloads,
          now, frame, beats, pushed, stuttered, script, requestRef, mounted,
          sourceId, engineSource, liveEngines, twin, loads>>

propVars == <<duration, intensity, audioPreviewUrl, audioLength, sourceId>>
engineVars == <<audioRef, audioCtxRef, analyserRef, destRef, sourceRef, ctxState, audioReady,
                engineSource, liveEngines>>
audioVars == <<paused, currentTime, loop>>
imageVars == <<imagesReady, poseImages, loading, loads>>
detectorVars == <<lastBeatTimeRef, energyHistoryRef, sequenceIndexRef, beatFlashRef>>
captureVars == <<isRecording, downloadProgress, sessions, downloads, downloadPc>>
observerVars == <<now, frame, beats, pushed, stuttered>>

----------------------------------------------------------------------------
(* Program constants *)

startBin == 2
endBin == 8
historySize == 60
MaxByte == 255
DebounceMs == 200

\* mutation: no cap below 100
PollCapNone == 100 + 0

PollCap == 99
ProgressScale == 3

BassBins == startBin .. (endBin - 1)
LevelScale == (endBin - startBin) * MaxByte

sequence == <<"base", "var1", "var2", "var3", "var2", "var1">>
Poses == {"base", "var1", "var2", "var3"}

NoFlash == 0 - 1

(* Bounds of the model *)
MaxFrames == 2
MaxSessions == 2
MaxPending == 1
ClockStep == 5
MaxRunFrames == 63
MaxDetFrames == 4
MaxFlashFrames == 34
MaxSources == 2
MaxTwinFrames == 8
MaxBassFrames == 3
MaxLoads == 2
TicksPerSecond == 200
StartTime == 1000

----------------------------------------------------------------------------
(* Pure helpers of renderFrame *)

Min(a, b) == IF a < b THEN a ELSE b

RECURSIVE SumSeq(_)
SumSeq(s) == IF s = <<>> THEN 0 ELSE Head(s) + SumSeq(Tail(s))

RECURSIVE SumBins(_, _, _)
SumBins(dataArray, i, stop) ==
    IF i >= stop THEN 0 ELSE dataArray[i] + SumBins(dataArray, i + 1, stop)

\* mutation: the loop runs up to endBin inclusive
BassLevelInclusive(dataArray) == SumBins(dataArray, startBin, endBin + 1)

\* for (i = startBin; i < endBin; i++) bassSum += dataArray[i];
\* bassLevel = (bassSum / (endBin - startBin)) / 255, in units of 1/LevelScale
BassLevel(dataArray) == SumBins(dataArray, startBin, endBin)

\* mutation: evicting as soon as the history is full
PushHistoryEarly(h, bassLevel) ==
    LET h1 == Append(h, bassLevel)
    IN  IF Len(h1) >= historySize THEN Tail(h1) ELSE h1

\* push(bassLevel); if (length > historySize) shift()
PushHistory(h, bassLevel) ==
    LET h1 == Append(h, bassLevel)
    IN  IF Len(h1) > historySize THEN Tail(h1) ELSE h1

\* mutation: a multiplier that rises with the setting
ThresholdRising(h, setting) == SumSeq(h) * (300 + setting)

\* mutation: a multiplier from 1.0 down to 0.5
SensitivityBelowOne(setting) == 200 - setting

\* sensitivity = 1.5 - (state.intensity / 200), in units of 1/200
Sensitivity(setting) == 300 - setting

\* threshold = avgEnergy * sensitivity, with avgEnergy = sum(h) / h.length;
\* kept multiplied by 200 * h.length
Threshold(h, setting) == SumSeq(h) * Sensitivity(setting)

\* avgEnergy = energyHistory.reduce((a, b) => a + b, 0) / energyHistory.length,
\* as the fraction it is; over an empty array it is 0 / 0
AvgEnergy(h) == [num |-> SumSeq(h), den |-> Len(h)]

\* a quotient that JavaScript evaluates to NaN, and one that is 0
IsNaN(q) == q.num = 0 /\ q.den = 0
IsZero(q) == q.num = 0 /\ q.den # 0

\* mutation: a sample equal to the threshold is enough
AboveThresholdOrEqual(bassLevel, h, setting) ==
    bassLevel * Len(h) * 200 >= Threshold(h, setting)

\* bassLevel > threshold, both sides multiplied by 200 * h.length; false when
\* the threshold is NaN
AboveThreshold(bassLevel, h, setting) ==
    /\ ~IsNaN(AvgEnergy(h))
    /\ bassLevel * Len(h) * 200 > Threshold(h, setting)

\* mutation: a floor of 0.03 instead of 0.3
AboveFloorTenth(bassLevel) == bassLevel * 100 > 3 * LevelScale

\* bassLevel > 0.3
AboveFloor(bassLevel) == bassLevel * 10 > 3 * LevelScale

\* mutation: a debounce that only asks for a later timestamp
DebouncedAnyLater(time, lastBeat) == time > lastBeat

\* time - lastBeatTimeRef.current > 200
Debounced(time, lastBeat) == time - lastBeat > DebounceMs

\* mutation: a stutter that skips one pose
AdvanceIndexSkip1(i, stutter) ==
    LET i1 == (i + 1) % Len(sequence)
    IN  IF stutter THEN (i1 + 1) % Len(sequence) ELSE i1

\* mutation: a stutter that skips three poses
AdvanceIndexSkip3(i, stutter) ==
    LET i1 == (i + 1) % Len(sequence)
    IN  IF stutter THEN (i1 + 3) % Len(sequence) ELSE i1

\* mutation: an advance that wraps one too early
AdvanceIndexShort(i, stutter) ==
    LET i1 == (i + 1) % (Len(sequence) - 1)
    IN  IF stutter THEN (i1 + 2) % Len(sequence) ELSE i1

\* (sequenceIndexRef.current + 1) % sequence.length, then on stutter + 2
AdvanceIndex(i, stutter) ==
    LET i1 == (i + 1) % Len(sequence)
    IN  IF stutter THEN (i1 + 2) % Len(sequence) ELSE i1

\* mutation: a frame without a beat takes the sequence back to its start
NextIndexResets(isBeat, i, stutter) == IF isBeat THEN AdvanceIndex(i, stutter) ELSE 1 - 1

\* mutation: the sequence advances on every frame
NextIndexAlways(isBeat, i, stutter) == AdvanceIndex(i, stutter)

\* if (isBeat) { ...advance the sequence... }
NextIndex(isBeat, i, stutter) == IF isBeat THEN AdvanceIndex(i, stutter) ELSE i

\* sequence[sequenceIndexRef.current]
DesiredPose(i) == sequence[i + 1]

\* mutation: the base image whatever the pose
ResolveImageBase(images, pose) == images["base"]

\* poseImages[desiredPose] || poseImages['base']
ResolveImage(images, pose) ==
    IF images[pose] # "none" THEN images[pose] ELSE images["base"]

\* beatFlashRef.current > 0.01, for the values 0 and 0.85^k the ref can hold:
\* 0.85^28 > 0.01 > 0.85^29
FlashLastDecay == 28

\* mutation: a flash that keeps decaying below 0.01
FlashVisibleAlways(k) == k # NoFlash

FlashVisible(k) == k # NoFlash /\ k <= FlashLastDecay

\* mutation: a beat leaves the flash as it was
FlashKeptOnBeat(isBeat, k) == k

\* if (isBeat) { beatFlashRef.current = 1.0; ... }
FlashAfterBeat(isBeat, k) == IF isBeat THEN 0 ELSE k

\* if (beatFlashRef.current > 0.01) { beatFlashRef.current *= 0.85; ... }
FlashDecay(k) == IF FlashVisible(k) THEN k + 1 ELSE k

----------------------------------------------------------------------------
(* 3. Render loop *)

\* if (bassLevel > threshold && bassLevel > 0.3) if (time - last > 200)
BeatTrigger(bassLevel, h, setting, time, lastBeat) ==
    /\ AboveThreshold(bassLevel, h, setting)
    /\ AboveFloor(bassLevel)
    /\ Debounced(time, lastBeat)

\* if (!canvas || !ctx || !imagesReady || !poseImages['base']): the canvas is
\* rendered whenever imagesReady holds
SkipFrame == ~imagesReady \/ poseImages["base"] = "none"

\* mutation: the skip path returns without a new request
SkipReturns == 1 - 1

\* the skip path: requestRef.current = requestAnimationFrame(renderFrame); return
\* (the number of callbacks it requests)
SkipReschedules == 1

\* mutation: the cleanup of the effect cancels nothing
CancelNothing(n) == n

\* cancelAnimationFrame(requestRef.current): requestRef holds the id of the
\* last request
CancelFrame(n) == IF n > 0 THEN n - 1 ELSE 0

\* mutation: a handler clears the last-beat time
HandlersResetLastBeat ==
    /\ lastBeatTimeRef' = 0
    /\ UNCHANGED <<energyHistoryRef, sequenceIndexRef, beatFlashRef>>

\* no handler other than renderFrame refers to lastBeatTimeRef,
\* energyHistoryRef, sequenceIndexRef or beatFlashRef
HandlersLeaveDetector == UNCHANGED detectorVars

\* the dependencies of renderFrame
RenderDeps == <<imagesReady, poseImages, isPlaying, isRecording, intensity>>

\* useEffect(() => { request; return () => cancel }, [renderFrame]): a commit
\* that changes a dependency of renderFrame runs the cleanup and the effect
RenderLoopEffect ==
    requestRef' = IF mounted /\ RenderDeps' # RenderDeps
                  THEN CancelFrame(requestRef) + 1
                  ELSE requestRef

\* mutation: analysis runs whenever an analyser exists
AnalysisRunsIdle == analyserRef

\* if (analyserRef.current && (isPlaying || isRecording))
AnalysisRuns == analyserRef /\ (isPlaying \/ isRecording)

\* mutation: a frame switches looping back on
FrameRestoresLoop ==
    /\ loop' = TRUE
    /\ UNCHANGED <<propVars, engineVars, paused, currentTime, imageVars, isPlaying,
                   error, captureVars, playPromises, togglePc, script, mounted>>

\* what renderFrame neither assigns nor calls a setter or a method of
FrameLeaves ==
    UNCHANGED <<propVars, engineVars, audioVars, imageVars, isPlaying, error,
                captureVars, playPromises, togglePc, script, mounted>>

RenderFrame(time, dataArray, rnd) ==
    /\ requestRef > 0
    /\ time >= now
    /\ IF SkipFrame
       THEN /\ requestRef' = (requestRef - 1) + SkipReschedules
            /\ now' = time
            /\ frame' = [n |-> frame.n + 1, drawn |-> FALSE, analysed |-> FALSE,
                         time |-> time, bassLevel |-> 0, isBeat |-> FALSE,
                         stutter |-> FALSE, pose |-> "none", img |-> "none"]
            /\ UNCHANGED <<detectorVars, beats, pushed, stuttered>>
       ELSE LET analysed == AnalysisRuns
                bassLevel == IF analysed THEN BassLevel(dataArray) ELSE 0
                h1 == IF analysed THEN PushHistory(energyHistoryRef, bassLevel)
                                  ELSE energyHistoryRef
                isBeat == analysed /\ BeatTrigger(bassLevel, h1, intensity,
                                                  time, lastBeatTimeRef)
                stutter == isBeat /\ rnd
                idx1 == NextIndex(isBeat, sequenceIndexRef, stutter)
                flash1 == FlashAfterBeat(isBeat, beatFlashRef)
            IN  /\ requestRef' = (requestRef - 1) + 1
                /\ energyHistoryRef' = h1
                /\ lastBeatTimeRef' = IF isBeat THEN time ELSE lastBeatTimeRef
                /\ sequenceIndexRef' = idx1
                /\ beatFlashRef' = FlashDecay(flash1)
                /\ now' = time
                /\ frame' = [n |-> frame.n + 1, drawn |-> TRUE, analysed |-> analysed,
                             time |-> time, bassLevel |-> bassLevel, isBeat |-> isBeat,
                             stutter |-> stutter, pose |-> DesiredPose(idx1),
                             img |-> ResolveImage(poseImages, DesiredPose(idx1))]
                /\ beats' = IF isBeat THEN Append(beats, time) ELSE beats
                /\ pushed' = IF analysed THEN Append(pushed, bassLevel) ELSE pushed
                /\ stuttered' = (stuttered \/ stutter)
    /\ FrameLeaves

----------------------------------------------------------------------------
(* 1. Asset loading *)

NoImages == [p \in Poses |-> "none"]

\* checkDone once loadedCount === framesToLoad.length; loaded is the set of
\* poses whose image fired onload (newPoseMap's keys).  An image is named by
\* the pose of the frame it was loaded from.
\* newPoseMap after ['var1', 'var2', 'var3'].forEach(p => { if (!newPoseMap[p])
\* newPoseMap[p] = baseImg; })
Published(loaded) == [p \in Poses |-> IF p \in loaded THEN p ELSE "base"]

\* one run of the effect: newPoseMap's keys, loadedCount as the set of frames
\* whose onload or onerror fired, and isMounted
NewLoad(frames) ==
    [frames |-> frames, done |-> {}, loaded |-> {}, isMounted |-> TRUE, published |-> 0]

\* the effect's cleanup, return () => { isMounted = false; }, of the latest run
Superseded(ls) ==
    IF ls = <<>> THEN ls ELSE [ls EXCEPT ![Len(ls)].isMounted = FALSE]

\* mutation: checkDone does not look at isMounted
MayPublishAlways(l) == TRUE

\* if (isMounted)
MayPublish(l) == l.isMounted

\* The effect runs for a set of frames: on mount, and again when
\* state.generatedFrames changes. The cleanup of the run before it has run.
NewFrames(frames) ==
    /\ mounted
    /\ Len(loads) < MaxLoads
    /\ IF loads = <<>> THEN TRUE ELSE loads[Len(loads)].frames # frames
    /\ loads' = Append(Superseded(loads), NewLoad(frames))
    /\ imagesReady' = FALSE
    /\ loading' = TRUE
    /\ UNCHANGED <<propVars, engineVars, audioVars, poseImages, isPlaying, error,
                   captureVars, playPromises, togglePc, observerVars, twin,
                   script, mounted>>
    /\ HandlersLeaveDetector
    /\ RenderLoopEffect

\* img.onload (ok) or img.onerror (~ok) of frame p of run k, with the
\* checkDone it calls
ImageDone(k, p, ok) ==
    /\ k \in DOMAIN loads
    /\ p \in loads[k].frames \ loads[k].done
    /\ LET l1 == [loads[k] EXCEPT !.done = @ \cup {p},
                                  !.loaded = IF ok THEN @ \cup {p} ELSE @]
           complete == l1.done = l1.frames
       IN  /\ IF complete /\ MayPublish(l1)
              THEN IF "base" \in l1.loaded
                   THEN /\ poseImages' = Published(l1.loaded)
                        /\ imagesReady' = TRUE
                        /\ error' = error
                        /\ loads' = [loads EXCEPT ![k] = [l1 EXCEPT !.published = @ + 1]]
                   ELSE /\ error' = "Failed to load base image."
                        /\ loads' = [loads EXCEPT ![k] = l1]
                        /\ UNCHANGED <<poseImages, imagesReady>>
              ELSE /\ loads' = [loads EXCEPT ![k] = l1]
                   /\ UNCHANGED <<poseImages, imagesReady, error>>
           /\ loading' = IF complete /\ k = Len(loads) THEN FALSE ELSE loading
    /\ UNCHANGED <<propVars, engineVars, audioVars, isPlaying, captureVars,
                   playPromises, togglePc, observerVars, twin, script, mounted>>
    /\ HandlersLeaveDetector
    /\ RenderLoopEffect

CheckDone(loaded) ==
    /\ loading
    /\ loading' = FALSE
    /\ loads' = loads
    /\ IF ~mounted
       THEN UNCHANGED <<poseImages, imagesReady, error>>
       ELSE IF "base" \in loaded
       THEN /\ poseImages' = Published(loaded)
            /\ imagesReady' = TRUE
            /\ error' = error
       ELSE /\ error' = "Failed to load base image."
            /\ UNCHANGED <<poseImages, imagesReady>>
    /\ UNCHANGED <<propVars, engineVars, audioVars, isPlaying, captureVars, playPromises, togglePc, observerVars, twin, script, mounted>>
    /\ HandlersLeaveDetector
    /\ RenderLoopEffect

----------------------------------------------------------------------------
(* 2. Audio engine initialisation, as the values initAudio leaves behind.    *)
(* ok: the audio graph can be constructed; st: the state the new             *)
(* AudioContext reports.                                                     *)

\* mutation: initAudio reports success whatever happened
InitOkAlways(ok) == TRUE

\* initAudio returns true: the source is there and nothing threw
InitOk(ok) == audioPreviewUrl /\ ok

InitError(ok) ==
    IF ~audioPreviewUrl THEN "Audio file is missing."
    ELSE "Could not initialize audio engine."

\* if (audioCtxRef.current) audioCtxRef.current.close()
CloseOld(ctx, n) == IF ctx THEN n - 1 ELSE n

\* mutation: the source node is not stored
EnsureEngineNoSource ==
    /\ audioRef' = TRUE
    /\ audioCtxRef' = TRUE
    /\ analyserRef' = TRUE
    /\ destRef' = TRUE
    /\ sourceRef' = sourceRef
    /\ audioReady' = TRUE
    /\ engineSource' = IF audioRef THEN engineSource ELSE sourceId
    /\ liveEngines' = IF audioRef THEN liveEngines
                      ELSE CloseOld(audioCtxRef, liveEngines) + 1

\* the refs and the audio element after `if (!audioRef.current) initAudio()`
\* succeeded or was not needed
EnsureEngine ==
    /\ audioRef' = TRUE
    /\ audioCtxRef' = TRUE
    /\ analyserRef' = TRUE
    /\ destRef' = TRUE
    /\ sourceRef' = TRUE
    /\ audioReady' = TRUE
    /\ engineSource' = IF audioRef THEN engineSource ELSE sourceId
    /\ liveEngines' = IF audioRef THEN liveEngines
                      ELSE CloseOld(audioCtxRef, liveEngines) + 1

\* the audio element's fields as handlers find them: a new Audio() is paused
\* at position 0, and initAudio sets loop = true
PausedNow == IF audioRef THEN paused ELSE TRUE
TimeNow == IF audioRef THEN currentTime ELSE 0
\* mutation: initAudio leaves the new element's loop at its default
LoopNowDefault == IF audioRef THEN loop ELSE FALSE

LoopNow == IF audioRef THEN loop ELSE TRUE
CtxNow(st) == IF audioRef THEN ctxState ELSE st

\* HTMLMediaElement.pause() rejects the play() promises still pending; the
\* ones togglePlay created run their catch handler
PauseRejects(wasPaused) == ~wasPaused /\ playPromises > 0

PlaybackBlocked == "Playback blocked. Please interact with the page."

\* HTMLMediaElement.play() on an element whose playback has ended seeks to 0
PlaySeek(t, lp) == IF t >= audioLength /\ ~lp THEN 0 ELSE t

----------------------------------------------------------------------------
(* 4. Interactions *)

\* the canvas view with its buttons is rendered unless (!imagesReady && !error)
ViewShown == imagesReady \/ error # "none"

Idle == [pc |-> "idle", isPlaying |-> FALSE]

\* togglePlay from `if (isPlaying)` on; cp is the isPlaying of the render
\* whose closure runs
TogglePlayBody(cp, allowed, pausedIn, timeIn, loopIn) ==
    IF cp
    THEN /\ paused' = TRUE
         /\ currentTime' = timeIn
         /\ isPlaying' = FALSE
         /\ IF PauseRejects(pausedIn)
            THEN error' = PlaybackBlocked /\ playPromises' = 0
            ELSE UNCHANGED <<error, playPromises>>
    ELSE IF allowed
         THEN /\ paused' = FALSE
              /\ currentTime' = PlaySeek(timeIn, loopIn)
              /\ playPromises' = playPromises + 1
              /\ UNCHANGED <<isPlaying, error>>
         ELSE /\ error' = PlaybackBlocked
              /\ paused' = pausedIn
              /\ currentTime' = timeIn
              /\ UNCHANGED <<isPlaying, playPromises>>

TogglePlay(ok, st, allowed) ==
    /\ mounted
    /\ ViewShown
    /\ ~isRecording
    /\ togglePc.pc = "idle"
    /\ playPromises < MaxPending
    /\ IF ~audioRef /\ ~InitOk(ok)
       THEN /\ error' = InitError(ok)
            /\ UNCHANGED <<engineVars, audioVars, isPlaying, playPromises, togglePc>>
       ELSE /\ EnsureEngine
            /\ loop' = LoopNow
            /\ ctxState' = CtxNow(st)
            /\ IF CtxNow(st) = "suspended"
               THEN /\ togglePc' = [pc |-> "resume", isPlaying |-> isPlaying]
                    /\ paused' = PausedNow
                    /\ currentTime' = TimeNow
                    /\ UNCHANGED <<isPlaying, playPromises, error>>
               ELSE /\ togglePc' = togglePc
                    /\ TogglePlayBody(isPlaying, allowed, PausedNow, TimeNow, LoopNow)
    /\ UNCHANGED <<propVars, imageVars, captureVars, observerVars, twin, script, mounted>>
    /\ HandlersLeaveDetector
    /\ RenderLoopEffect

\* the continuation of togglePlay after `await audioCtxRef.current.resume()`
TogglePlayResume(allowed) ==
    /\ togglePc.pc = "resume"
    /\ togglePc.isPlaying \/ playPromises < MaxPending
    /\ ctxState' = "running"
    /\ togglePc' = Idle
    /\ loop' = loop
    /\ TogglePlayBody(togglePc.isPlaying, allowed, paused, currentTime, loop)
    /\ UNCHANGED <<propVars, audioRef, audioCtxRef, analyserRef, destRef, sourceRef,
                   engineSource, liveEngines,
                   audioReady, imageVars, captureVars, observerVars, twin,
                   script, mounted>>
    /\ HandlersLeaveDetector
    /\ RenderLoopEffect

\* audio.play().then(() => setIsPlaying(true))
PlayResolved ==
    /\ playPromises > 0
    /\ ~paused
    /\ playPromises' = playPromises - 1
    /\ isPlaying' = TRUE
    /\ UNCHANGED <<propVars, engineVars, audioVars, imageVars, error, captureVars, togglePc, observerVars, twin, script, mounted>>
    /\ HandlersLeaveDetector
    /\ RenderLoopEffect

\* mutation: the button stays enabled while recording
ExportDisabledImagesOnly == ~imagesReady

\* disabled={isRecording || !imagesReady}
ExportDisabled == isRecording \/ ~imagesReady

NewSession == [recorder |-> "recording", interval |-> TRUE, stopPending |-> FALSE,
               flushed |-> FALSE, chunks |-> 0, duration |-> duration]

\* handleDownload from `new MediaRecorder` on: recorder.start(); audio.play();
\* setInterval(...)
StartRecording(allowed, pausedIn, timeIn) ==
    /\ sessions' = Append(sessions, NewSession)
    /\ paused' = IF allowed THEN FALSE ELSE pausedIn
    /\ currentTime' = IF allowed THEN PlaySeek(timeIn, FALSE) ELSE timeIn

\* the element's paused flag after `if (isPlaying) { audio.pause(); ... }`
PausedAfterReset == IF isPlaying THEN TRUE ELSE PausedNow

\* a click on the Export button: nothing when the button is disabled,
\* handleDownload otherwise
ExportClick(ok, st, allowed) ==
    /\ mounted
    /\ ViewShown
    /\ IF ExportDisabled
       THEN UNCHANGED <<engineVars, audioVars, isPlaying, error, captureVars,
                           playPromises>>
       ELSE /\ Len(sessions) < MaxSessions
            /\ IF ~audioRef /\ ~InitOk(ok)
               THEN /\ error' = InitError(ok)
                    /\ UNCHANGED <<engineVars, audioVars, isPlaying, captureVars,
                                   playPromises>>
               ELSE /\ EnsureEngine
                    /\ ctxState' = CtxNow(st)
                    /\ isRecording' = TRUE
                    /\ downloadProgress' = 0
                    /\ isPlaying' = FALSE
                    /\ loop' = FALSE
                    /\ IF isPlaying /\ PauseRejects(PausedNow)
                       THEN error' = PlaybackBlocked /\ playPromises' = 0
                       ELSE UNCHANGED <<error, playPromises>>
                    /\ downloads' = downloads
                    /\ IF CtxNow(st) = "suspended"
                       THEN /\ downloadPc' = "resume"
                            /\ paused' = PausedAfterReset
                            /\ currentTime' = 0
                            /\ sessions' = sessions
                       ELSE /\ downloadPc' = downloadPc
                            /\ StartRecording(allowed, PausedAfterReset, 0)
    /\ UNCHANGED <<propVars, imageVars, togglePc, observerVars, twin, script, mounted>>
    /\ HandlersLeaveDetector
    /\ RenderLoopEffect

\* the continuation of handleDownload after `await audioCtxRef.current.resume()`;
\* an AudioContext resolves its pending resume() promises in the order of the
\* calls, so a togglePlay still awaiting its own resume() continues first.
\* After the teardown canvasRef.current is null and captureStream throws.
ExportResume(allowed) ==
    /\ downloadPc = "resume"
    /\ togglePc.pc = "idle"
    /\ downloadPc' = "idle"
    /\ ctxState' = "running"
    /\ IF mounted
       THEN StartRecording(allowed, paused, currentTime)
       ELSE UNCHANGED <<sessions, paused, currentTime>>
    /\ UNCHANGED <<propVars, audioRef, audioCtxRef, analyserRef, destRef, sourceRef,
                   engineSource, liveEngines,
                   audioReady, loop, imageVars, isPlaying, error, isRecording, downloadProgress, downloads, playPromises, togglePc,
                   observerVars, twin, script, mounted>>
    /\ HandlersLeaveDetector
    /\ RenderLoopEffect

\* mutation: the share of the target still to play
ProgressRemaining(t, d) == ((d - t) * 100 * ProgressScale) \div d

\* p = (audio.currentTime / duration) * 100, in units of 1/ProgressScale percent
\* (every duration of the slider divides 100 * ProgressScale)
ProgressOf(t, d) == (t * 100 * ProgressScale) \div d

\* mutation: the deadline is missed when the clock is exactly on it
DeadlinePassed(t, d) == t > d

\* mutation: the natural end of the audio also ends the capture
DeadlineOrEnded(t, d) == t >= d \/ t >= audioLength

\* if (audioRef.current.currentTime >= duration)
DeadlineReached(t, d) == t >= d

\* one tick of session i's setInterval callback
PollTick(i) ==
    /\ i \in DOMAIN sessions
    /\ sessions[i].interval
    /\ audioRef
    /\ LET d == sessions[i].duration
       IN  IF DeadlineReached(currentTime, d)
           THEN /\ sessions[i].recorder = "recording"
                /\ sessions' = [sessions EXCEPT ![i].recorder = "inactive",
                                                ![i].stopPending = TRUE,
                                                ![i].interval = FALSE]
                /\ paused' = TRUE
                /\ IF PauseRejects(paused)
                   THEN error' = PlaybackBlocked /\ playPromises' = 0
                   ELSE UNCHANGED <<error, playPromises>>
                /\ downloadProgress' = 100 * ProgressScale
           ELSE /\ downloadProgress' =
                       Min(PollCap * ProgressScale, ProgressOf(currentTime, d))
                /\ UNCHANGED <<sessions, paused, error, playPromises>>
    /\ UNCHANGED <<propVars, engineVars, currentTime, loop, imageVars, isPlaying,
                   isRecording, downloads, downloadPc, togglePc,
                   observerVars, twin, script, mounted>>
    /\ HandlersLeaveDetector
    /\ RenderLoopEffect

\* recorder.ondataavailable: without a timeslice the encoder delivers its
\* data once, after stop() and before the stop event
RecorderData(i, nonEmpty) ==
    /\ i \in DOMAIN sessions
    /\ sessions[i].stopPending
    /\ ~sessions[i].flushed
    /\ sessions' = [sessions EXCEPT ![i].flushed = TRUE,
                                    ![i].chunks = IF nonEmpty THEN @ + 1 ELSE @]
    /\ UNCHANGED <<propVars, engineVars, audioVars, imageVars, isPlaying, error,
                   isRecording, downloadProgress, downloads, downloadPc,
                   playPromises, togglePc, observerVars, twin, script, mounted>>
    /\ HandlersLeaveDetector
    /\ RenderLoopEffect

\* new Blob(chunks) and URL.createObjectURL(blob): the artifact holds every
\* buffered chunk and its object URL is live
NewArtifact(i, chunks) ==
    [session |-> i, chunks |-> chunks, handle |-> "live", clicked |-> FALSE]

\* a.click(): the browser fetches the object URL, which it can while the URL
\* has not been revoked
Click(a) == [a EXCEPT !.clicked = (a.handle = "live")]

\* URL.revokeObjectURL(url)
Revoke(a) == [a EXCEPT !.handle = "released"]

\* mutation: the URL is revoked before the click
OnStopArtifactRevokedFirst(i, chunks) == Click(Revoke(NewArtifact(i, chunks)))

\* the artifact as onstop leaves it: built, clicked, then revoked
OnStopArtifact(i, chunks) == Revoke(Click(NewArtifact(i, chunks)))

\* recorder.onstop
RecorderOnStop(i) ==
    /\ i \in DOMAIN sessions
    /\ sessions[i].stopPending
    /\ sessions[i].flushed
    /\ sessions' = [sessions EXCEPT ![i].stopPending = FALSE]
    /\ downloads' = Append(downloads, OnStopArtifact(i, sessions[i].chunks))
    /\ isRecording' = FALSE
    /\ loop' = (IF audioRef THEN TRUE ELSE loop)
    /\ currentTime' = (IF audioRef THEN 0 ELSE currentTime)
    /\ UNCHANGED <<propVars, engineVars, paused, imageVars, isPlaying, error,
                   downloadProgress, downloadPc, playPromises, togglePc,
                   observerVars, twin, script, mounted>>
    /\ HandlersLeaveDetector
    /\ RenderLoopEffect

----------------------------------------------------------------------------
(* The audio element's clock, in seconds *)

AudioAdvance ==
    /\ audioRef
    /\ ~paused
    /\ currentTime < audioLength
    /\ currentTime' = Min(currentTime + ClockStep, audioLength)
    /\ UNCHANGED <<propVars, engineVars, paused, loop, imageVars, isPlaying, error,
                   captureVars, playPromises, togglePc, observerVars, twin,
                   script, mounted>>
    /\ HandlersLeaveDetector
    /\ RenderLoopEffect

\* loop = true: playback wraps at the natural end
AudioWrap ==
    /\ audioRef
    /\ ~paused
    /\ currentTime >= audioLength
    /\ loop
    /\ currentTime' = 0
    /\ UNCHANGED <<propVars, engineVars, paused, loop, imageVars, isPlaying, error,
                   captureVars, playPromises, togglePc, observerVars, twin,
                   script, mounted>>
    /\ HandlersLeaveDetector
    /\ RenderLoopEffect

\* loop = false: playback ends; audio.addEventListener('ended', () => setIsPlaying(false))
AudioEnded ==
    /\ audioRef
    /\ ~paused
    /\ currentTime >= audioLength
    /\ ~loop
    /\ paused' = TRUE
    /\ isPlaying' = FALSE
    /\ UNCHANGED <<propVars, engineVars, currentTime, loop, imageVars, error,
                   captureVars, playPromises, togglePc, observerVars, twin,
                   script, mounted>>
    /\ HandlersLeaveDetector
    /\ RenderLoopEffect

----------------------------------------------------------------------------
(* Inputs *)

Durations == {5, 10}
AudioLengths == {3, 12}
PoseSets == {{"base", "var1", "var3"}, {"var1"}}
CtxStates == {"suspended", "running"}

\* the bass band of a getByteFrequencyData snapshot
Flat(v) == [i \in BassBins |-> v]
Kick == [i \in BassBins |-> IF i = startBin THEN MaxByte ELSE 0]
Spectra == {Flat(0), Flat(MaxByte)}
DetSpectra == {Flat(0), Flat(76), Flat(77), Flat(MaxByte)}
FrameSteps == {250}
DetSteps == {50, 200}

\* the second sequencer at the index the first one starts from
SameStart(i) == [index |-> i, sameDraws |-> TRUE]

NoFrame == [n |-> 0, drawn |-> FALSE, analysed |-> FALSE, time |-> 0, bassLevel |-> 0,
            isBeat |-> FALSE, stutter |-> FALSE, pose |-> "none", img |-> "none"]

----------------------------------------------------------------------------
(* The view after construction, and its events *)

InitRefs ==
    /\ lastBeatTimeRef = 0
    /\ energyHistoryRef = <<>>
    /\ sequenceIndexRef = 0
    /\ beatFlashRef = NoFlash
    /\ playPromises = 0
    /\ togglePc = Idle
    /\ downloadPc = "idle"
    /\ sessions = <<>>
    /\ downloads = <<>>
    /\ now = StartTime
    /\ frame = NoFrame
    /\ beats = <<>>
    /\ pushed = <<>>
    /\ stuttered = FALSE
    /\ twin = SameStart(sequenceIndexRef)
    /\ loads = <<>>
    /\ requestRef = 1
    /\ mounted = TRUE

Init ==
    /\ duration \in Durations
    /\ intensity = 50
    /\ audioPreviewUrl \in BOOLEAN
    /\ audioLength \in AudioLengths
    /\ audioRef = FALSE
    /\ audioCtxRef = FALSE
    /\ sourceId = 1
    /\ engineSource = 0
    /\ liveEngines = 0
    /\ analyserRef = FALSE
    /\ destRef = FALSE
    /\ sourceRef = FALSE
    /\ ctxState = "none"
    /\ audioReady = FALSE
    /\ paused = TRUE
    /\ currentTime = 0
    /\ loop = TRUE
    /\ isPlaying = FALSE
    /\ isRecording = FALSE
    /\ downloadProgress = 0
    /\ imagesReady = FALSE
    /\ poseImages = NoImages
    /\ loading = TRUE
    /\ error = "none"
    /\ script = <<>>
    /\ InitRefs

Frame ==
    /\ frame.n < MaxFrames
    /\ \E dt \in FrameSteps, d \in Spectra, rnd \in BOOLEAN :
           RenderFrame(now + dt, d, rnd)
    /\ twin' = twin

Next ==
    \/ \E loaded \in PoseSets : CheckDone(loaded)
    \/ \E ok \in BOOLEAN, st \in CtxStates, allowed \in BOOLEAN : TogglePlay(ok, st, allowed)
    \/ \E allowed \in BOOLEAN : TogglePlayResume(allowed)
    \/ PlayResolved
    \/ \E ok \in BOOLEAN, st \in CtxStates, allowed \in BOOLEAN : ExportClick(ok, st, allowed)
    \/ \E allowed \in BOOLEAN : ExportResume(allowed)
    \/ \E i \in 1 .. MaxSessions : PollTick(i)
    \/ \E i \in 1 .. MaxSessions, nonEmpty \in BOOLEAN : RecorderData(i, nonEmpty)
    \/ \E i \in 1 .. MaxSessions : RecorderOnStop(i)
    \/ AudioAdvance
    \/ AudioWrap
    \/ AudioEnded
    \/ Frame

Spec == Init /\ [][Next]_vars

----------------------------------------------------------------------------
(* The capture pipeline under the scheduling the platform guarantees: an     *)
(* active interval timer keeps ticking, queued encoder events and promise    *)
(* continuations are eventually run, and a playing element's clock advances  *)
(* until it ends.  Clicks are never forced.                                  *)

CaptureNext ==
    \/ \E loaded \in PoseSets : CheckDone(loaded)
    \/ \E ok \in BOOLEAN, st \in CtxStates, allowed \in BOOLEAN : TogglePlay(ok, st, allowed)
    \/ \E allowed \in BOOLEAN : TogglePlayResume(allowed)
    \/ PlayResolved
    \/ \E ok \in BOOLEAN, st \in CtxStates, allowed \in BOOLEAN : ExportClick(ok, st, allowed)
    \/ \E allowed \in BOOLEAN : ExportResume(allowed)
    \/ \E i \in 1 .. MaxSessions : PollTick(i)
    \/ \E i \in 1 .. MaxSessions, nonEmpty \in BOOLEAN : RecorderData(i, nonEmpty)
    \/ \E i \in 1 .. MaxSessions : RecorderOnStop(i)
    \/ AudioAdvance
    \/ AudioWrap
    \/ AudioEnded

Scheduling ==
    /\ WF_vars(\E i \in 1 .. MaxSessions : PollTick(i))
    /\ WF_vars(\E i \in 1 .. MaxSessions, nonEmpty \in BOOLEAN : RecorderData(i, nonEmpty))
    /\ WF_vars(\E i \in 1 .. MaxSessions : RecorderOnStop(i))
    /\ WF_vars(\E allowed \in BOOLEAN : ExportResume(allowed))
    /\ WF_vars(\E allowed \in BOOLEAN : TogglePlayResume(allowed))
    /\ WF_vars(PlayResolved)
    /\ WF_vars(AudioAdvance)
    /\ WF_vars(AudioWrap)
    /\ WF_vars(AudioEnded)

FairSpec == Init /\ [][CaptureNext]_vars /\ Scheduling

(* The detector on its own: the view with its images published, the engine   *)
(* running and interactive playback on, driven by render frames only.        *)

Playing ==
    /\ audioRef = TRUE
    /\ audioCtxRef = TRUE
    /\ sourceId = 1
    /\ engineSource = 1
    /\ liveEngines = 1
    /\ analyserRef = TRUE
    /\ destRef = TRUE
    /\ sourceRef = TRUE
    /\ ctxState = "running"
    /\ audioReady = TRUE
    /\ paused = FALSE
    /\ loop = TRUE
    /\ isPlaying = TRUE
    /\ isRecording = FALSE
    /\ downloadProgress = 0
    /\ imagesReady = TRUE
    /\ loading = FALSE
    /\ error = "none"
    /\ audioPreviewUrl = TRUE

PlayingWith(loaded) ==
    /\ duration = 10
    /\ audioLength = 12
    /\ currentTime = 0
    /\ poseImages = Published(loaded)
    /\ Playing
    /\ InitRefs

InitPlaying == PlayingWith({"base", "var1", "var3"})

InitDetector ==
    /\ intensity \in {0, 50, 100}
    /\ script = <<>>
    /\ InitPlaying

DetectorFrame ==
    /\ frame.n < MaxDetFrames
    /\ \E dt \in DetSteps, d \in DetSpectra, rnd \in BOOLEAN :
           RenderFrame(now + dt, d, rnd)
    /\ twin' = twin

SpecDetector == InitDetector /\ [][DetectorFrame]_vars

(* Long runs: the spectrum and the spacing of frame k are read from a short  *)
(* repeating script chosen at the start, so a run can outlast historySize.   *)

ScriptSteps == [dt : {50, 150}, byte : {0, 100, MaxByte}]
Scripts == {<<a>> : a \in ScriptSteps} \cup {<<a, b>> : a, b \in ScriptSteps}

RunPoseSets == {{"base", "var1", "var3"}, {"base", "var2"}}

InitRun ==
    /\ intensity = 50
    /\ script \in Scripts
    /\ \E loaded \in RunPoseSets : PlayingWith(loaded)

RunFrame ==
    /\ frame.n < MaxRunFrames
    /\ LET e == script[(frame.n % Len(script)) + 1]
       IN  \E rnd \in BOOLEAN : RenderFrame(now + e.dt, Flat(e.byte), rnd)
    /\ twin' = twin

SpecRun == InitRun /\ [][RunFrame]_vars

\* The second sequencer's step on an accepted beat: the same advance, with
\* its own Math.random() draw
TwinBeat(t, stutter, stutter2) ==
    [index |-> NextIndex(TRUE, t.index, stutter2),
     sameDraws |-> t.sameDraws /\ (stutter2 = stutter)]

\* A frame of the first run; the second run is given the beat, if the frame
\* accepted one, and nothing otherwise
TwinFrame ==
    /\ frame.n < MaxTwinFrames
    /\ LET e == script[(frame.n % Len(script)) + 1]
       IN  \E rnd \in BOOLEAN : RenderFrame(now + e.dt, Flat(e.byte), rnd)
    /\ \E rnd2 \in BOOLEAN :
           twin' = IF frame'.isBeat THEN TwinBeat(twin, frame'.stutter, rnd2) ELSE twin

SpecTwin == InitRun /\ [][TwinFrame]_vars

\* Byte spectra over the first bins of the analyser's output, with energy
\* inside and outside the bass range
Bins == 0 .. (endBin + 1)
Silence == [i \in Bins |-> 0]
Full == [i \in Bins |-> MaxByte]
Outside == [i \in Bins |-> IF i \in BassBins THEN 0 ELSE MaxByte]
Ramp == [i \in Bins |-> 25 * i]
FirstBin == [i \in Bins |-> IF i = startBin THEN MaxByte ELSE 0]
LastBin == [i \in Bins |-> IF i = endBin - 1 THEN 1 ELSE 0]
BassSpectra == {Silence, Full, Outside, Ramp, FirstBin, LastBin}
BassSteps == [dt : {250}, data : BassSpectra]
BassScripts == {<<a>> : a \in BassSteps} \cup {<<a, b>> : a, b \in BassSteps}

InitBass ==
    /\ intensity = 50
    /\ script \in BassScripts
    /\ InitPlaying

\* the frame that analyses the next spectrum of the script
BassFrame ==
    /\ frame.n < MaxBassFrames
    /\ LET e == script[(frame.n % Len(script)) + 1]
       IN  \E rnd \in BOOLEAN : RenderFrame(now + e.dt, e.data, rnd)
    /\ twin' = twin

SpecBass == InitBass /\ [][BassFrame]_vars

(* The render loop over the life of the view: clicks, promise continuations  *)
(* and frames as in Spec, and the teardown of the view.                      *)

\* the cleanups of the effects: isMounted = false;
\* cancelAnimationFrame(requestRef.current)
Unmount ==
    /\ mounted
    /\ mounted' = FALSE
    /\ requestRef' = CancelFrame(requestRef)
    /\ loads' = Superseded(loads)
    /\ UNCHANGED <<propVars, engineVars, audioVars, imagesReady, poseImages, loading,
                   isPlaying, error, captureVars, playPromises, togglePc,
                   observerVars, twin, script>>
    /\ HandlersLeaveDetector

LoopNext ==
    \/ \E loaded \in PoseSets : CheckDone(loaded)
    \/ \E ok \in BOOLEAN, st \in CtxStates, allowed \in BOOLEAN : TogglePlay(ok, st, allowed)
    \/ \E allowed \in BOOLEAN : TogglePlayResume(allowed)
    \/ PlayResolved
    \/ \E ok \in BOOLEAN, st \in CtxStates, allowed \in BOOLEAN : ExportClick(ok, st, allowed)
    \/ \E allowed \in BOOLEAN : ExportResume(allowed)
    \/ Frame
    \/ Unmount

SpecLoop == Init /\ [][LoopNext]_vars

\* nothing of the torn-down view is still to run
Quiescent ==
    /\ togglePc.pc = "idle"
    /\ downloadPc = "idle"
    /\ playPromises = 0
    /\ ~isRecording

\* The user goes back to the audio step, uploads another file and returns:
\* the App renders a new Step4Preview, whose refs and state start afresh.
\* Nothing closed the audio context of the view that was torn down.
Remount ==
    /\ ~mounted
    /\ Quiescent
    /\ sourceId < MaxSources
    /\ sourceId' = sourceId + 1
    /\ mounted' = TRUE
    /\ requestRef' = 1
    /\ audioRef' = FALSE
    /\ audioCtxRef' = FALSE
    /\ analyserRef' = FALSE
    /\ destRef' = FALSE
    /\ sourceRef' = FALSE
    /\ ctxState' = "none"
    /\ audioReady' = FALSE
    /\ engineSource' = 0
    /\ paused' = TRUE
    /\ currentTime' = 0
    /\ loop' = TRUE
    /\ isPlaying' = FALSE
    /\ imagesReady' = FALSE
    /\ poseImages' = NoImages
    /\ loading' = TRUE
    /\ loads' = loads
    /\ error' = "none"
    /\ lastBeatTimeRef' = 0
    /\ energyHistoryRef' = <<>>
    /\ sequenceIndexRef' = 0
    /\ beatFlashRef' = NoFlash
    /\ UNCHANGED <<duration, intensity, audioPreviewUrl, audioLength, liveEngines,
                   captureVars, playPromises, togglePc, observerVars, twin, script>>

SourceNext ==
    \/ \E loaded \in PoseSets : CheckDone(loaded)
    \/ \E ok \in BOOLEAN, st \in CtxStates, allowed \in BOOLEAN : TogglePlay(ok, st, allowed)
    \/ \E allowed \in BOOLEAN : TogglePlayResume(allowed)
    \/ PlayResolved
    \/ \E ok \in BOOLEAN, st \in CtxStates, allowed \in BOOLEAN : ExportClick(ok, st, allowed)
    \/ \E allowed \in BOOLEAN : ExportResume(allowed)
    \/ Frame
    \/ Unmount
    \/ Remount

SpecSource == Init /\ [][SourceNext]_vars

\* The sets of frames the view is given: the source image alone while the
\* frames are generated, then generated frames
FrameSets == {{"base"}, {"base", "var1"}, {"var1", "var2"}}

ImagesNext ==
    \/ \E frames \in FrameSets : NewFrames(frames)
    \/ \E k \in 1 .. MaxLoads, p \in Poses, ok \in BOOLEAN : ImageDone(k, p, ok)
    \/ Unmount

SpecImages == Init /\ [][ImagesNext]_vars

(* The flash on its own: the view two frames into playback, the second frame *)
(* having accepted a beat, with playback either still on or paused since;    *)
(* driven by render frames that follow a script, long enough for the flash   *)
(* to fall below 0.01.                                                       *)

InitAfterBeat ==
    /\ intensity = 50
    /\ script \in Scripts
    /\ duration = 10
    /\ audioLength = 12
    /\ audioPreviewUrl = TRUE
    /\ audioRef = TRUE
    /\ audioCtxRef = TRUE
    /\ sourceId = 1
    /\ engineSource = 1
    /\ liveEngines = 1
    /\ analyserRef = TRUE
    /\ destRef = TRUE
    /\ sourceRef = TRUE
    /\ ctxState = "running"
    /\ audioReady = TRUE
    /\ isPlaying \in BOOLEAN
    /\ paused = ~isPlaying
    /\ currentTime = 0
    /\ loop = TRUE
    /\ isRecording = FALSE
    /\ downloadProgress = 0
    /\ imagesReady = TRUE
    /\ poseImages = Published({"base", "var1", "var3"})
    /\ loading = FALSE
    /\ error = "none"
    /\ lastBeatTimeRef = StartTime + 500
    /\ energyHistoryRef = <<0, LevelScale>>
    /\ sequenceIndexRef = 1
    /\ beatFlashRef = 1
    /\ playPromises = 0
    /\ togglePc = Idle
    /\ downloadPc = "idle"
    /\ sessions = <<>>
    /\ downloads = <<>>
    /\ now = StartTime + 500
    /\ frame = [n |-> 2, drawn |-> TRUE, analysed |-> TRUE, time |-> StartTime + 500,
                bassLevel |-> LevelScale, isBeat |-> TRUE, stutter |-> FALSE,
                pose |-> "var1", img |-> "var1"]
    /\ beats = <<StartTime + 500>>
    /\ pushed = <<0, LevelScale>>
    /\ stuttered = FALSE
    /\ twin = SameStart(sequenceIndexRef)
    /\ loads = <<>>
    /\ requestRef = 1
    /\ mounted = TRUE

FlashFrame ==
    /\ frame.n < MaxFlashFrames
    /\ LET e == script[(frame.n % Len(script)) + 1]
       IN  \E rnd \in BOOLEAN : RenderFrame(now + e.dt, Flat(e.byte), rnd)
    /\ twin' = twin

SpecFlash == InitAfterBeat /\ [][FlashFrame]_vars

(* The progress poll on its own: a capture session that has just started     *)
(* (engine running, recorder started, audio playing from 0 without looping), *)
(* driven by the clock, the poll and the encoder events.  Here the clock and *)
(* the target duration are counted in ticks of 5 ms, so the poll sees the    *)
(* clock just below the target: a target of 5 s, and an audio of 3 s or 6 s. *)

InitCapturing ==
    /\ duration = 5 * TicksPerSecond
    /\ intensity = 50
    /\ audioPreviewUrl = TRUE
    /\ audioLength \in {3 * TicksPerSecond, 6 * TicksPerSecond}
    /\ audioRef = TRUE
    /\ audioCtxRef = TRUE
    /\ sourceId = 1
    /\ engineSource = 1
    /\ liveEngines = 1
    /\ analyserRef = TRUE
    /\ destRef = TRUE
    /\ sourceRef = TRUE
    /\ ctxState = "running"
    /\ audioReady = TRUE
    /\ paused = FALSE
    /\ currentTime = 0
    /\ loop = FALSE
    /\ isPlaying = FALSE
    /\ isRecording = TRUE
    /\ downloadProgress = 0
    /\ imagesReady = TRUE
    /\ poseImages = [p \in Poses |-> "base"]
    /\ loading = FALSE
    /\ error = "none"
    /\ script = <<>>
    /\ lastBeatTimeRef = 0
    /\ energyHistoryRef = <<>>
    /\ sequenceIndexRef = 0
    /\ beatFlashRef = NoFlash
    /\ playPromises = 0
    /\ togglePc = Idle
    /\ downloadPc = "idle"
    /\ sessions = <<NewSession>>
    /\ downloads = <<>>
    /\ now = StartTime
    /\ frame = NoFrame
    /\ beats = <<>>
    /\ pushed = <<>>
    /\ stuttered = FALSE
    /\ twin = SameStart(sequenceIndexRef)
    /\ loads = <<>>
    /\ requestRef = 1
    /\ mounted = TRUE

PollNext ==
    \/ \E i \in 1 .. MaxSessions : PollTick(i)
    \/ \E i \in 1 .. MaxSessions, nonEmpty \in BOOLEAN : RecorderData(i, nonEmpty)
    \/ \E i \in 1 .. MaxSessions : RecorderOnStop(i)
    \/ AudioAdvance
    \/ AudioEnded

SpecPoll == InitCapturing /\ [][PollNext]_vars

----------------------------------------------------------------------------
(* Properties *)

\* a step that is one render frame
FrameStep == frame'.n = frame.n + 1

\* C1: any two accepted beats have timestamps at least 200 ms apart, so no
\* window of 200 ms starting at a beat holds a second accepted beat.
BeatDebounce ==
    /\ \A i, j \in DOMAIN beats : i < j => beats[j] - beats[i] >= 200
    /\ \A i \in DOMAIN beats :
           Cardinality({j \in DOMAIN beats :
                            beats[i] <= beats[j] /\ beats[j] < beats[i] + 200}) = 1

\* two beats were accepted, from frames 50 ms or 200 ms apart
BeatDebounceWitness == Len(beats) >= 2

\* the sample of the frame just rendered is above the rolling mean of the
\* history that holds it, times (1.5 - intensity/200), and above 0.3
CrossesThreshold ==
    /\ frame'.bassLevel * Len(energyHistoryRef') * 200
           > SumSeq(energyHistoryRef') * (300 - intensity)
    /\ frame'.bassLevel * 10 > 3 * LevelScale

LastN(s, n) == SubSeq(s, Len(s) - n + 1, Len(s))

\* C7: the energy history holds at most 60 samples, and exactly the most
\* recent min(n, 60) of the n samples analysed so far, in arrival order.
EnergyHistoryBound ==
    /\ Len(energyHistoryRef) <= 60
    /\ energyHistoryRef = LastN(pushed, Min(Len(pushed), 60))

\* more than 60 samples were analysed, so the oldest were evicted
EnergyHistoryEvicted == Len(pushed) > 60 /\ Len(energyHistoryRef) = 60

\* C8: as long as no stutter fired, after k beats the pose is the k-th of
\* base, var1, var2, var3, var2, var1 (cyclically) and the index is k mod 6:
\* back at 0 after exactly 6 advances and not before.
SequencerCycle ==
    (~stuttered) =>
        /\ sequenceIndexRef = Len(beats) % 6
        /\ DesiredPose(sequenceIndexRef)
               = <<"base", "var1", "var2", "var3", "var2", "var1">>[(Len(beats) % 6) + 1]
        /\ frame.drawn => frame.pose = DesiredPose(sequenceIndexRef)
        /\ (Len(beats) \in 1 .. 5) => sequenceIndexRef # 0
        /\ (Len(beats) = 6) => sequenceIndexRef = 0

\* six beats without a stutter: the index is back at base
SequencerCycleClosed ==
    ~stuttered /\ Len(beats) = 6 /\ sequenceIndexRef = 0 /\ frame.pose = "base"

\* C9: on every accepted beat the index i becomes (i+1) mod 6, or
\* ((i+1)+2) mod 6 when the stutter fires, and the index is always in 0..5.
IndexSuccessor ==
    /\ [](sequenceIndexRef \in 0 .. 5)
    /\ [][(FrameStep /\ frame'.isBeat) =>
             sequenceIndexRef' = IF frame'.stutter
                                 THEN ((sequenceIndexRef + 1) + 2) % 6
                                 ELSE (sequenceIndexRef + 1) % 6]_vars

\* a beat on which the stutter fired
StutterFired == frame.isBeat /\ frame.stutter /\ sequenceIndexRef = 3

\* session i has been stopped and its stop event handled
Finalised(i) == sessions[i].recorder = "inactive" /\ ~sessions[i].stopPending

\* C3: a poll tick that observes the clock at or past the target duration
\* stops the encoder, ends the poll and sets progress to 100; a session is
\* stopped once and finalised once (one download); when finalising completes
\* the audio loops again, is at position 0, and isRecording is false.
CaptureTermination ==
    /\ [][\A i \in DOMAIN sessions :
             (PollTick(i) /\ currentTime >= sessions[i].duration) =>
                 /\ sessions'[i].recorder = "inactive"
                 /\ sessions'[i].stopPending
                 /\ ~sessions'[i].interval
                 /\ downloadProgress' = 100 * ProgressScale]_vars
    /\ [][\A i \in DOMAIN sessions :
             /\ sessions[i].recorder = "inactive" => sessions'[i].recorder = "inactive"
             /\ Finalised(i) => ~sessions'[i].stopPending
             /\ ~sessions[i].interval => ~sessions'[i].interval]_vars
    /\ [](\A i \in DOMAIN sessions :
             Cardinality({k \in DOMAIN downloads : downloads[k].session = i})
                 = IF Finalised(i) THEN 1 ELSE 0)
    /\ [][\A i \in DOMAIN sessions :
             RecorderOnStop(i) => (loop' /\ currentTime' = 0 /\ ~isRecording')]_vars

\* a capture with target duration 10 ran to its deadline and was finalised
CaptureFinalised ==
    /\ duration = 10
    /\ Len(sessions) = 1
    /\ Finalised(1)
    /\ ~isRecording
    /\ downloadProgress = 100 * ProgressScale
    /\ loop
    /\ currentTime = 0

\* C5: the encoder of a session leaves the recording state only in a poll
\* tick of that session taken with the clock at or past the target duration;
\* the audio's natural end leaves every encoder as it was.
EncoderStopOnlyAtDeadline ==
    /\ [][\A i \in DOMAIN sessions :
             (sessions[i].recorder = "recording" /\ sessions'[i].recorder # "recording")
                 => (currentTime >= sessions[i].duration /\ PollTick(i))]_vars
    /\ [][AudioEnded => sessions' = sessions]_vars

\* the audio ended before the target duration and the encoder still records
EndedStillRecording ==
    /\ sessions # <<>>
    /\ sessions[1].recorder = "recording"
    /\ currentTime = audioLength
    /\ audioLength < duration
    /\ paused

IndexOnlyByBeat ==
    [][sequenceIndexRef' # sequenceIndexRef => (FrameStep /\ frame'.isBeat)]_vars

\* the index was advanced by a beat during a capture that has since been
\* polled, stopped and finalised
IndexKeptAcrossCapture ==
    /\ sequenceIndexRef # 0
    /\ downloads # <<>>
    /\ ~isRecording

\* C4: every capture session that starts is eventually finalised and the
\* view returns to Idle.
CaptureLiveness == isRecording ~> ~isRecording

\* C11: from the start of a capture session until its completion no step
\* lowers the reported progress; in particular no poll tick of a session
\* reports less than the tick before it.
ProgressMonotonic ==
    /\ [][(isRecording /\ isRecording') => downloadProgress' >= downloadProgress]_vars
    /\ [][\A i \in DOMAIN sessions :
             PollTick(i) => downloadProgress' >= downloadProgress]_vars

\* a session polled half way through its target duration
ProgressHalfWay ==
    /\ isRecording
    /\ sessions # <<>>
    /\ sessions[Len(sessions)].interval
    /\ currentTime * 2 = duration
    /\ downloadProgress = 50 * ProgressScale

\* C12: a poll tick taken with the clock below the target duration reports
\* min(99, currentTime / duration * 100), which lies in [0, 99]; progress
\* becomes 100 only in a poll tick that sees the clock at or past the target,
\* and a session whose poll is still running never shows 100.
ProgressFormula ==
    /\ [][\A i \in DOMAIN sessions :
             (PollTick(i) /\ currentTime < sessions[i].duration) =>
                 /\ downloadProgress' \in 0 .. 99 * ProgressScale
                 /\ \/ /\ downloadProgress' = 99 * ProgressScale
                       /\ currentTime * 100 * ProgressScale
                              >= 99 * ProgressScale * sessions[i].duration
                    \/ /\ downloadProgress' < 99 * ProgressScale
                       /\ downloadProgress' * sessions[i].duration
                              <= currentTime * 100 * ProgressScale
                       /\ currentTime * 100 * ProgressScale
                              < (downloadProgress' + 1) * sessions[i].duration]_vars
    /\ [][(downloadProgress' = 100 * ProgressScale
                /\ downloadProgress # 100 * ProgressScale) =>
             \E i \in DOMAIN sessions :
                 PollTick(i) /\ currentTime >= sessions[i].duration]_vars
    /\ [](\A i \in DOMAIN sessions :
             sessions[i].interval => downloadProgress <= 99 * ProgressScale)

\* the poll saw the clock within the last hundredth of the target duration
\* and reported the cap
ProgressCapped ==
    /\ isRecording
    /\ sessions[1].interval
    /\ currentTime < duration
    /\ currentTime * 100 > 99 * duration
    /\ downloadProgress = 99 * ProgressScale

\* C13: a click on the enabled Export button while no engine exists, with the
\* audio source missing or the engine failing to initialise, sets an error
\* message and creates no capture state: isRecording stays false, progress,
\* sessions (encoder and poll timer), the pending capture continuation and the
\* audio's loop, position, paused and playing state are unchanged, and no
\* engine is left behind.
CaptureRejected ==
    /\ [][((\E ok \in BOOLEAN, st \in CtxStates, allowed \in BOOLEAN :
                ExportClick(ok, st, allowed))
            /\ ~ExportDisabled /\ ~audioRef /\ ~audioPreviewUrl) =>
               /\ error' = "Audio file is missing."
               /\ ~isRecording'
               /\ UNCHANGED <<downloadProgress, sessions, downloads, downloadPc,
                              loop, currentTime, paused, isPlaying, engineVars>>]_vars
    /\ [][((\E st \in CtxStates, allowed \in BOOLEAN : ExportClick(FALSE, st, allowed))
            /\ ~ExportDisabled /\ ~audioRef) =>
               /\ error' \in {"Audio file is missing.",
                              "Could not initialize audio engine."}
               /\ ~isRecording'
               /\ UNCHANGED <<downloadProgress, sessions, downloads, downloadPc,
                              loop, currentTime, paused, isPlaying, engineVars>>]_vars

\* the view is ready for export, the audio source is missing, and a rejected
\* start left the message and nothing else
CaptureRejectedNoAudio ==
    /\ imagesReady
    /\ ~audioPreviewUrl
    /\ error = "Audio file is missing."
    /\ ~audioRef
    /\ ~isRecording
    /\ sessions = <<>>
    /\ downloadProgress = 0

\* C14: when the encoder of a session is started the audio element is paused,
\* at position 0 and not looping, so that the play() that follows starts the
\* one pass that is recorded.  The encoder is started either by the click
\* itself, after its reset of the element, or by the continuation of a click
\* that had to await resume(), from the element as that step finds it.
PreparingPrecedesRecording ==
    [][Len(sessions') > Len(sessions) =>
          /\ IF downloadPc = "resume"
             THEN paused /\ currentTime = 0 /\ ~loop
             ELSE PausedAfterReset
          /\ currentTime' = 0
          /\ ~loop']_vars

\* the reactivity settings of the slider
Settings == 0 .. 100

\* C15 as stated: whatever the baseline, every increase of the setting within
\* 0..100 strictly decreases the threshold (stated for increases by one, which
\* compose to every increase).
ThresholdStrictlyDecreasing ==
    energyHistoryRef # <<>> =>
        \A a \in Settings \ {100} :
            Threshold(energyHistoryRef, a + 1) < Threshold(energyHistoryRef, a)

\* C15 amended: with a baseline above 0 every increase of the setting strictly
\* decreases the threshold; with baseline 0 the threshold is 0 at every
\* setting.
ThresholdDecreasingAboveZero ==
    energyHistoryRef # <<>> =>
        IF SumSeq(energyHistoryRef) > 0
        THEN \A a \in Settings \ {100} :
                 Threshold(energyHistoryRef, a + 1) < Threshold(energyHistoryRef, a)
        ELSE \A a \in Settings : Threshold(energyHistoryRef, a) = 0

\* frames were analysed and left a baseline above 0
BaselineAboveZero ==
    /\ frame.analysed
    /\ Len(energyHistoryRef) >= 2
    /\ SumSeq(energyHistoryRef) > 0

\* C16: the threshold multiplier of an analysed frame lies between 0.5 and
\* 1.5; it is 1.5 at setting 0 and 0.5 at setting 100 (Sensitivity is in
\* units of 1/200).
MultiplierRange ==
    frame.analysed =>
        /\ Sensitivity(intensity) \in 100 .. 300
        /\ intensity = 0 => Sensitivity(intensity) = 300
        /\ intensity = 100 => Sensitivity(intensity) = 100

\* no sample, however loud and however late, is accepted against history h
NoBeatAgainst(h) ==
    \A b \in {0, LevelScale \div 2, LevelScale} :
        ~BeatTrigger(b, h, intensity, now + DebounceMs + 1, lastBeatTimeRef)

NoDetectionWhenIdle ==
    [][(FrameStep /\ (~analyserRef \/ (~isPlaying /\ ~isRecording))) =>
          /\ ~frame'.analysed
          /\ frame'.bassLevel = 0
          /\ ~frame'.isBeat
          /\ beats' = beats
          /\ energyHistoryRef' = energyHistoryRef
          /\ lastBeatTimeRef' = lastBeatTimeRef
          /\ sequenceIndexRef' = sequenceIndexRef]_vars

\* a frame drawn without analysis after an analysed one: playback or capture
\* stopped in between, the analyser still exists, and the history kept its
\* one sample
IdleFrameAfterAnalysis ==
    /\ frame.n = 2
    /\ frame.drawn
    /\ ~frame.analysed
    /\ analyserRef
    /\ ~isPlaying
    /\ ~isRecording
    /\ Len(energyHistoryRef) = 1

\* C19: every drawn frame resolves the pose sequence[index]; the image is the
\* one the pose set maps that pose to, which is the pose's own image when it
\* was loaded and the base image otherwise, and is never absent.
PoseFallback ==
    frame.drawn =>
        /\ poseImages["base"] = "base"
        /\ frame.pose = <<"base", "var1", "var2", "var3", "var2", "var1">>[sequenceIndexRef + 1]
        /\ frame.img # "none"
        /\ frame.img = IF poseImages[frame.pose] # "none"
                       THEN poseImages[frame.pose] ELSE poseImages["base"]
        /\ frame.img \in {frame.pose, "base"}
        /\ \A loaded \in RunPoseSets :
               poseImages = Published(loaded) =>
                   frame.img = IF frame.pose \in loaded THEN frame.pose ELSE "base"

\* a frame asked for var2 while only base, var1 and var3 were loaded, and
\* drew the base image
Var2ResolvedToBase ==
    /\ frame.drawn
    /\ sequenceIndexRef = 4
    /\ frame.pose = "var2"
    /\ poseImages = Published({"base", "var1", "var3"})
    /\ frame.img = "base"

\* the condition under which renderFrame may not draw
BaseMissing == ~imagesReady \/ poseImages["base"] = "none"

FlashResetOnBeat ==
    [][(FrameStep /\ frame'.isBeat) => beatFlashRef' = 1]_vars

\* a later beat found the flash part-way through its decay and reset it
FlashResetMidDecay ==
    /\ frame.isBeat
    /\ Len(beats) >= 2
    /\ beatFlashRef = 1

\* C22 as stated: every drawn frame multiplies the flash, as it is after any
\* beat reset, by 0.85 (the initial 0 stays 0).
FlashDecaysEveryFrame ==
    [][(FrameStep /\ frame'.drawn) =>
          beatFlashRef' = IF frame'.isBeat THEN 1
                          ELSE IF beatFlashRef = NoFlash THEN NoFlash
                          ELSE beatFlashRef + 1]_vars

\* C22 amended: a drawn frame multiplies the flash by 0.85 when its value
\* after any beat reset is above 0.01, that is 0.85^k with k <= 28, and leaves
\* it unchanged otherwise.
FlashDecaysWhileVisible ==
    [][(FrameStep /\ frame'.drawn) =>
          beatFlashRef' = IF frame'.isBeat THEN 1
                          ELSE IF beatFlashRef \in 0 .. 28 THEN beatFlashRef + 1
                          ELSE beatFlashRef]_vars

\* the flash has fallen to 0.85^29 < 0.01 and a further frame left it there
FlashBelowCutoff ==
    /\ beatFlashRef = 29
    /\ frame.drawn
    /\ ~frame.isBeat
    /\ frame.n >= 32

\* C23: while the view is mounted exactly one render callback is pending,
\* after a frame on either path and after a commit that replaces renderFrame,
\* whether or not playback or capture is on; once the view is torn down none
\* is pending and no frame runs.
RenderLoopScheduling ==
    /\ [](mounted => requestRef = 1)
    /\ [](~mounted => requestRef = 0)
    /\ [][FrameStep => (mounted /\ requestRef' = 1)]_vars
    /\ [][(mounted' /\ <<imagesReady, poseImages, isPlaying, isRecording>>'
                        # <<imagesReady, poseImages, isPlaying, isRecording>>)
             => requestRef' = 1]_vars

\* the view was torn down after frames had been drawn during playback
TornDownAfterFrames ==
    /\ ~mounted
    /\ requestRef = 0
    /\ frame.n = MaxFrames
    /\ frame.drawn
    /\ frame.analysed

\* C24: a render frame leaves isRecording, the sessions (encoder, poll timer,
\* chunks), the downloads, the progress, the pending capture continuation and
\* the audio element's loop flag, position and paused state, as well as
\* isPlaying and the pending play promises, as they were.
FrameLeavesCapture ==
    [][FrameStep =>
          UNCHANGED <<isRecording, sessions, downloads, downloadProgress, downloadPc,
                      loop, currentTime, paused, isPlaying, playPromises>>]_vars

\* a frame was analysed and a capture is under way: the encoder records, the
\* clock has advanced, the poll has reported, looping is off
FrameDuringCapture ==
    /\ frame.analysed
    /\ frame.n = MaxFrames
    /\ isRecording
    /\ sessions # <<>>
    /\ sessions[Len(sessions)].recorder = "recording"
    /\ currentTime > 0
    /\ downloadProgress > 0
    /\ ~loop

\* C25: the energy history, the last-beat time, the sequence index and the
\* flash change only in a step that is a render frame; polls, clicks,
\* continuations, encoder events and audio events leave them as they were.
DetectorSingleWriter ==
    /\ [][<<energyHistoryRef, lastBeatTimeRef, sequenceIndexRef, beatFlashRef>>'
              # <<energyHistoryRef, lastBeatTimeRef, sequenceIndexRef, beatFlashRef>>
             => FrameStep]_vars
    /\ [][~FrameStep =>
             /\ energyHistoryRef' = energyHistoryRef
             /\ lastBeatTimeRef' = lastBeatTimeRef
             /\ sequenceIndexRef' = sequenceIndexRef
             /\ beatFlashRef' = beatFlashRef]_vars

\* a capture ran to its end after a beat had been accepted, and the detector
\* state is still the one the beat frame left
DetectorKeptAcrossCapture ==
    /\ beats # <<>>
    /\ lastBeatTimeRef = beats[Len(beats)]
    /\ Len(energyHistoryRef) = 2
    /\ beatFlashRef = 1
    /\ downloads # <<>>
    /\ ~isRecording

\* C26: at most one audio engine is live at any time; a step that creates an
\* engine leaves exactly one live, the engines made for earlier sources torn
\* down; and the engine in use is bound to the source the view was given.
EngineFollowsSource ==
    /\ [](liveEngines <= 1)
    /\ [][(~audioRef /\ audioRef') => liveEngines' = 1]_vars
    /\ [](audioRef => engineSource = sourceId)

InitErrors == {"Audio file is missing.", "Could not initialize audio engine."}

\* C27: the five engine handles are all absent or all present; none is ever
\* stored while the audio source is missing; and a step that reports an
\* engine initialisation error stores no handle and leaves the audio element,
\* isPlaying, isRecording, the play promises, the sessions and the pending
\* continuations as they were.
FailedInitLeavesNothing ==
    /\ [](/\ audioCtxRef = audioRef
          /\ analyserRef = audioRef
          /\ destRef = audioRef
          /\ sourceRef = audioRef)
    /\ [](~audioPreviewUrl => ~audioRef)
    /\ [][(error' # error /\ error' \in InitErrors) =>
             /\ ~audioRef' /\ ~audioCtxRef' /\ ~analyserRef' /\ ~destRef' /\ ~sourceRef'
             /\ ~isPlaying' /\ ~isRecording'
             /\ UNCHANGED <<engineVars, audioVars, isPlaying, isRecording,
                            playPromises, sessions, togglePc, downloadPc>>]_vars

\* the images are loaded, constructing the audio graph failed on a click, and
\* nothing is stored or running
InitFailedOnClick ==
    /\ imagesReady
    /\ audioPreviewUrl
    /\ error = "Could not initialize audio engine."
    /\ ~audioRef /\ ~audioCtxRef /\ ~analyserRef /\ ~destRef /\ ~sourceRef
    /\ ~isPlaying /\ ~isRecording /\ sessions = <<>>

\* C28: a step that starts an encoder and leaves the audio element paused is
\* a capture start whose play() the platform rejected: it reports the
\* playback-blocked message and does not leave the view recording; and a
\* step outside a capture that reports the playback-blocked message does not
\* leave the view playing.
PlaybackRejectionReported ==
    /\ [][(Len(sessions') > Len(sessions) /\ paused') =>
             (error' = PlaybackBlocked /\ ~isRecording')]_vars
    /\ [][(error' = PlaybackBlocked /\ error' # error /\ ~isRecording') =>
             ~isPlaying']_vars

DownloadsOf(i) == {j \in DOMAIN downloads : downloads[j].session = i}

\* C29: every download was clicked while its object URL was live, has its
\* URL released, and holds every chunk its session buffered; a session has
\* one download once its stop event was handled and none before; and the
\* step that ends isRecording is the one that adds the session's download.
OneArtifactPerSession ==
    /\ [](\A j \in DOMAIN downloads :
             /\ downloads[j].clicked
             /\ downloads[j].handle = "released"
             /\ downloads[j].session \in DOMAIN sessions
             /\ downloads[j].chunks = sessions[downloads[j].session].chunks)
    /\ [](\A i \in DOMAIN sessions :
             Cardinality(DownloadsOf(i)) =
                 IF sessions[i].recorder = "inactive" /\ sessions[i].flushed
                    /\ ~sessions[i].stopPending
                 THEN 1 ELSE 0)
    /\ [][(isRecording /\ ~isRecording') =>
             /\ Len(downloads') = Len(downloads) + 1
             /\ downloads'[Len(downloads')].handle = "released"]_vars

\* two sessions ran to their end: two downloads, the first from a session
\* that buffered a chunk, and the view is back to not recording
TwoArtifacts ==
    /\ Len(sessions) = MaxSessions
    /\ Len(downloads) = MaxSessions
    /\ downloads[1].session = 1
    /\ downloads[1].chunks = 1
    /\ downloads[Len(downloads)].session = Len(sessions)
    /\ ~isRecording

LastSpectrum == script[((frame.n - 1) % Len(script)) + 1].data

\* C31: in every analysed frame bassLevel is the sum of the six bins 2..7
\* divided by 6 and by 255 (here cross-multiplied), and lies within [0, 1].
BassEnergyMean ==
    (frame.n > 0 /\ frame.analysed) =>
        LET d == LastSpectrum
        IN  /\ frame.bassLevel * (6 * 255)
                   = (d[2] + d[3] + d[4] + d[5] + d[6] + d[7]) * LevelScale
            /\ frame.bassLevel >= 0
            /\ frame.bassLevel <= LevelScale

\* a frame analysed a spectrum whose energy lies outside the bass range only
BassOutsideIgnored ==
    /\ frame.n > 0
    /\ frame.analysed
    /\ LastSpectrum = Outside
    /\ frame.bassLevel = 0

AllEqual(h) == \A i, j \in DOMAIN h : h[i] = h[j]

Shown(i) == ResolveImage(poseImages, DesiredPose(i))

\* C33 as stated: a frame that accepts a beat flips the parity of the index
\* and draws a pose other than the one drawn at the index before it.
BeatChangesShownPose ==
    [][(FrameStep /\ frame'.isBeat) =>
          /\ sequenceIndexRef' % 2 # sequenceIndexRef % 2
          /\ Shown(sequenceIndexRef') # Shown(sequenceIndexRef)]_vars

\* C33 amended: a frame that accepts a beat flips the parity of the index and
\* selects another pose of the sequence; the pose drawn is another one too
\* when the var1 or var3 pose at the odd index of the two is in the pose set.
BeatChangesSelectedPose ==
    [][(FrameStep /\ frame'.isBeat) =>
          LET odd == IF sequenceIndexRef % 2 = 1 THEN sequenceIndexRef
                                                 ELSE sequenceIndexRef'
          IN  /\ sequenceIndexRef' % 2 # sequenceIndexRef % 2
              /\ DesiredPose(sequenceIndexRef') # DesiredPose(sequenceIndexRef)
              /\ poseImages[DesiredPose(odd)] = DesiredPose(odd) =>
                     Shown(sequenceIndexRef') # Shown(sequenceIndexRef)]_vars

\* a beat with a stutter took the sequence to var2 while var1 and var3 are
\* missing from the pose set
StutterAmongFallbacks ==
    /\ frame.isBeat
    /\ frame.stutter
    /\ poseImages["var1"] = "base"
    /\ poseImages["var3"] = "base"
    /\ frame.pose = "var2"
    /\ frame.img = "var2"

\* C34: with an engine and isRecording false the audio element loops; looping
\* is switched off only by a step that leaves isRecording true, and switched on
\* again only by the step that ends isRecording.
LoopOffOnlyDuringCapture ==
    /\ []((audioRef /\ ~isRecording) => loop)
    /\ [][(audioRef' /\ loop /\ ~loop') => isRecording']_vars
    /\ [][(audioRef /\ ~loop /\ loop') => (isRecording /\ ~isRecording')]_vars

\* after a finished capture the user plays the audio again, looping
LoopingAfterCapture ==
    /\ audioRef
    /\ downloads # <<>>
    /\ ~isRecording
    /\ isPlaying
    /\ ~paused
    /\ loop

\* C35: whenever isRecording is false, isPlaying is true only if the audio
\* element is not paused.
PlayingFlagConsistent == (~isRecording /\ isPlaying) => (audioRef /\ ~paused)

Complete(l) == l.done = l.frames

\* C36: a run of the loading effect publishes at most once, and only when all
\* its frames completed and base loaded; a step that sets imagesReady or
\* replaces the pose set is the last completion of the latest run, still
\* mounted, with base loaded; a run that was superseded or torn down never
\* publishes; and when the latest run completed without base, imagesReady is
\* false and the base-load error is reported.
PoseSetPublishedOnce ==
    /\ [](\A k \in DOMAIN loads :
             /\ loads[k].published <= 1
             /\ loads[k].published = 1 =>
                    (Complete(loads[k]) /\ "base" \in loads[k].loaded))
    /\ [][((imagesReady' /\ ~imagesReady) \/ poseImages' # poseImages) =>
             /\ loads' # <<>>
             /\ Len(loads') = Len(loads)
             /\ LET k == Len(loads)
                IN  /\ loads[k].isMounted
                    /\ ~Complete(loads[k])
                    /\ Complete(loads'[k])
                    /\ "base" \in loads'[k].loaded
                    /\ poseImages' = Published(loads'[k].loaded)
                    /\ imagesReady']_vars
    /\ [][\A k \in DOMAIN loads :
             ~loads[k].isMounted =>
                 (k \in DOMAIN loads' /\ loads'[k].published = loads[k].published)]_vars
    /\ [](loads # <<>> =>
             LET l == loads[Len(loads)]
             IN  (Complete(l) /\ l.isMounted /\ ~("base" \in l.loaded)) =>
                     (~imagesReady /\ error = "Failed to load base image."))

\* the first run was superseded before its base image loaded and did not
\* publish; the second run published its own frames
SupersededRunSilent ==
    /\ Len(loads) = 2
    /\ Complete(loads[1])
    /\ "base" \in loads[1].loaded
    /\ loads[1].published = 0
    /\ loads[2].published = 1
    /\ imagesReady
    /\ poseImages = Published(loads[2].loaded)

\* C37: once the view is torn down, the audio element, if there is one, is
\* paused and no session's poll timer is active.
NothingOutlivesView ==
    ~mounted =>
        /\ audioRef => paused
        /\ \A i \in DOMAIN sessions : ~sessions[i].interval

====
